---- MODULE Spec2Model ----
(***************************************************************************)
(* Token monitoring state engine of base-sniper-monitor (src/src/main.py): *)
(* the persisted price ledger (TokenDataManager), the risk scorer          *)
(* (RiskScorer), the alert manager (AlertManager) and the fan-out of the   *)
(* per-token analysis coroutines (analyze_token_with_risk) that            *)
(* monitor_new_tokens awaits with asyncio.gather.                          *)
(*                                                                         *)
(* Numbers.  Prices and liquidities are naturals (price units); a price    *)
(* multiple current/initial is kept as the pair of its two prices, so      *)
(* floor(x) is current \div initial and x >= m is current >= m * initial.  *)
(* Tax rates are per-mille (0.05 is 50).  Time is a natural clock `now`    *)
(* that advances with every record_token_price, so that the samples of a   *)
(* history carry increasing timestamps; at MaxClock it stands still.       *)
(*                                                                         *)
(* A value used several times in an action is bound by \E x \in {e}, which *)
(* has TLC evaluate e once.                                                *)
(*                                                                         *)
(* Scheduling.  The coroutines run on one asyncio event loop: code between *)
(* two awaits is one atomic step.  The only awaits inside a per-token      *)
(* pipeline are the ones of send_telegram_message (main.py 390-411).       *)
(***************************************************************************)
EXTENDS Integers, Sequences, FiniteSets, TLC

(* ---------------------------- bounds ---------------------------------- *)
MaxPrice == 3
MaxTasks == 2
MaxCycles == 2
MaxUpserts == 105
MaxClock == 4
MaxSamples == 2
MaxRestarts == 1
MaxCalls == 2
MaxHalfDays == 3

(* ------------------------ program constants --------------------------- *)
HistoryCap == 100
RiskAlertFloor == 6
alert_cooldown == 3600
MinLiquidity == 100
Hours24 == 86400

Addrs == {"a1", "a2"}
Symbols == {"TKN"}
Prices == 0..MaxPrice
Liquidities == {50, 1000}

VARIABLES
    data_file,        \* data/token_history.json: [valid, tokens]
    sent_alerts,      \* AlertManager.sent_alerts
    now,              \* the wall clock (datetime.now(), time.time())
    tasks,            \* the analysis coroutines of the batch being gathered
    batch,            \* the cycle: [state, found_quality_tokens]; state is "none",
                      \* "gathering", "summarized" or the exception that ended it
    cycles,           \* batches gathered so far
    notified,         \* history: successful milestone deliveries per <<address, m>>
    call,             \* the last direct call of a ledger operation: what it
                      \* raised or returned, and whether load_data warned
    boot,             \* history: the restarts so far and what the ledger and
                      \* `notified` held at the last one
    risk_scorer       \* a RiskScorer instance and its last calculate_risk_score

vars == <<data_file, sent_alerts, now, tasks, batch, cycles, notified, call,
          boot, risk_scorer>>

\* What the per-token pipeline and the cycle leave alone.
aside == <<call, boot, risk_scorer>>

(* ------------------------------ helpers ------------------------------- *)
Range(s) == {s[i] : i \in 1..Len(s)}

\* Mutant: the later value wins.
Max2_latest(a, b) == b

Max2(a, b) == IF a >= b THEN a ELSE b

Min2(a, b) == IF a <= b THEN a ELSE b

EmptyTokens == [a \in {} |-> 0]

\* The clock after one more reading of datetime.now().
ClockAfter(t) == IF t < MaxClock THEN t + 1 ELSE t

(* ------------------------- TokenDataManager --------------------------- *)
\* open() and json.load(): the parsed document, or the exception raised when
\* the file is missing, unreadable or not JSON.
json_load(file) ==
    [raised |-> IF file.valid THEN "none" ELSE "Exception",
     data |-> file.tokens, warned |-> FALSE]

\* Mutant: load_data without its try/except.
load_data_uncaught(file) == json_load(file)

\* load_data with what it raises to its caller: `except Exception` prints
\* its warning and returns the empty collection.
load_data_try(file) ==
    LET r == json_load(file)
    IN  IF r.raised # "none"
        THEN [raised |-> "none", data |-> EmptyTokens, warned |-> TRUE]
        ELSE r

\* load_data: the parsed document, or the empty collection when the file
\* cannot be read or parsed.
load_data(file) == load_data_try(file).data

\* save_data: the whole document is rewritten.
save_data(data) == [valid |-> TRUE, tokens |-> data]

\* The record created for an address seen for the first time.  current_price
\* and last_updated are assigned a few lines later in the same call; they are
\* given here so that every record has the same fields.
NewRecord(symbol, price, liquidity, current_time) ==
    [symbol |-> symbol,
     first_seen |-> current_time,
     price_history |-> <<>>,
     highest_price |-> price,
     lowest_price |-> price,
     initial_price |-> price,
     initial_liquidity |-> liquidity,
     price_alerts_sent |-> <<>>,
     current_price |-> price,
     last_updated |-> current_time]

\* Mutant: price_history[:100], the oldest samples kept.
TrimHistory_oldest(hist) ==
    IF Len(hist) > HistoryCap THEN SubSeq(hist, 1, HistoryCap) ELSE hist

\* price_history[-100:] once the list is longer than 100.
TrimHistory(hist) ==
    IF Len(hist) > HistoryCap
    THEN SubSeq(hist, Len(hist) - HistoryCap + 1, Len(hist))
    ELSE hist

\* Mutant: the record is built anew on every call (the `not in` test lost).
record_token_price_overwrite(data, token_address, symbol, price, liquidity, current_time) ==
    LET td == NewRecord(symbol, price, liquidity, current_time)
        rec == [td EXCEPT !.price_history =
                   <<[timestamp |-> current_time, price |-> price,
                      liquidity |-> liquidity]>>]
    IN  IF token_address \in DOMAIN data
        THEN [data EXCEPT ![token_address] = rec]
        ELSE data @@ (token_address :> rec)

\* Mutant: only the record written is handed to save_data.
record_token_price_alone(data, token_address, symbol, price, liquidity, current_time) ==
    LET td == IF token_address \notin DOMAIN data
              THEN NewRecord(symbol, price, liquidity, current_time)
              ELSE data[token_address]
        hist == Append(td.price_history,
                       [timestamp |-> current_time, price |-> price,
                        liquidity |-> liquidity])
    IN  token_address :>
            [td EXCEPT !.price_history = TrimHistory(hist),
                       !.highest_price = Max2(td.highest_price, price),
                       !.lowest_price = Min2(td.lowest_price, price),
                       !.current_price = price,
                       !.last_updated = current_time]

\* Mutant: first_seen is stamped on every call, as last_updated is.
record_token_price_restamp(data, token_address, symbol, price, liquidity, current_time) ==
    LET d1 == IF token_address \notin DOMAIN data
              THEN data @@ (token_address :>
                       NewRecord(symbol, price, liquidity, current_time))
              ELSE data
        td == d1[token_address]
        hist == Append(td.price_history,
                       [timestamp |-> current_time, price |-> price,
                        liquidity |-> liquidity])
        td2 == [td EXCEPT !.price_history = TrimHistory(hist),
                          !.highest_price = Max2(td.highest_price, price),
                          !.lowest_price = Min2(td.lowest_price, price),
                          !.current_price = price,
                          !.first_seen = current_time,
                          !.last_updated = current_time]
    IN  [d1 EXCEPT ![token_address] = td2]

\* record_token_price on the loaded document `data`: the document it saves.
record_token_price(data, token_address, symbol, price, liquidity, current_time) ==
    LET d1 == IF token_address \notin DOMAIN data
              THEN data @@ (token_address :>
                       NewRecord(symbol, price, liquidity, current_time))
              ELSE data
        td == d1[token_address]
        hist == Append(td.price_history,
                       [timestamp |-> current_time, price |-> price,
                        liquidity |-> liquidity])
        td2 == [td EXCEPT !.price_history = TrimHistory(hist),
                          !.highest_price = Max2(td.highest_price, price),
                          !.lowest_price = Min2(td.lowest_price, price),
                          !.current_price = price,
                          !.last_updated = current_time]
    IN  [d1 EXCEPT ![token_address] = td2]

\* Mutant: a zero initial price is taken as 1 (`initial_price or 1`).
calculate_returns_unit(data, token_address) ==
    IF token_address \notin DOMAIN data
    THEN [empty |-> TRUE, initial_price |-> 0, current_price |-> 0]
    ELSE [empty |-> FALSE,
          initial_price |-> Max2(data[token_address].initial_price, 1),
          current_price |-> data[token_address].current_price]

\* calculate_returns: {} (empty) for an unknown address or a zero initial
\* price; otherwise the two prices the price multiple is the quotient of.
calculate_returns(data, token_address) ==
    IF token_address \notin DOMAIN data
    THEN [empty |-> TRUE, initial_price |-> 0, current_price |-> 0]
    ELSE IF data[token_address].initial_price = 0
    THEN [empty |-> TRUE, initial_price |-> 0, current_price |-> 0]
    ELSE [empty |-> FALSE,
          initial_price |-> data[token_address].initial_price,
          current_price |-> data[token_address].current_price]

\* Mutant: the scan runs from the oldest sample (`reversed` left out).
FirstFromOldest(old) == CHOOSE j \in old : \A k \in old : j <= k

\* for price_point in reversed(price_history): ... break -- of the samples
\* (positions) that pass the test, the newest.
FirstFromNewest(old) == CHOOSE j \in old : \A k \in old : k <= j

\* price_24h_ago of calculate_returns at current_time (a clock reading in
\* seconds; a timestamp is kept as the clock reading it was made from,
\* isoformat and fromisoformat being inverses): initial_price, or the price
\* of the first sample, newest first, that is 24 hours old.
price_24h_ago(token_data, current_time) ==
    LET h == token_data.price_history
        old == {j \in 1..Len(h) : h[j].timestamp <= current_time - Hours24}
    IN  IF old = {} THEN token_data.initial_price
        ELSE h[FirstFromNewest(old)].price

\* return_24h before rounding, as the fraction <<numerator, denominator>>:
\* ((current_price - price_24h_ago) / price_24h_ago) * 100, or 0.
return_24h(current_price, anchor) ==
    IF anchor > 0 THEN <<(current_price - anchor) * 100, anchor>> ELSE <<0, 1>>

get_price_alerts_sent(data, token_address) ==
    IF token_address \in DOMAIN data
    THEN data[token_address].price_alerts_sent
    ELSE <<>>

\* Mutant: the multiple is appended to the loaded document, which is never
\* saved.
mark_price_alert_sent_unsaved(file, token_address, multiple) == file

\* Mutant: the multiple is appended without the `not in` test.
mark_price_alert_sent_dup(file, token_address, multiple) ==
    LET data == load_data(file)
    IN  IF token_address \in DOMAIN data
        THEN save_data([data EXCEPT ![token_address].price_alerts_sent =
                            Append(@, multiple)])
        ELSE file

\* mark_price_alert_sent: the file after the call (saved only when the
\* multiple is appended).
mark_price_alert_sent(file, token_address, multiple) ==
    LET data == load_data(file)
    IN  IF token_address \in DOMAIN data
           /\ multiple \notin Range(data[token_address].price_alerts_sent)
        THEN save_data([data EXCEPT ![token_address].price_alerts_sent =
                            Append(@, multiple)])
        ELSE file

(* ----------------------------- RiskScorer ----------------------------- *)
\* __init__: risk_reasons = [].  `calls` counts the calculate_risk_score calls
\* made on the instance; `last` is the last of them: its token_data, the
\* risk_score before max(risk_score, 0), and what it returned.
RiskScorer_init ==
    [risk_reasons |-> <<>>, calls |-> 0,
     last |-> [token_data |-> <<>>, risk_score |-> 0, ret |-> 0]]

check_contract_verified(token_data) == token_data.verified

check_tax_rate(token_data) ==
    IF token_data.buy_tax > 50 \/ token_data.sell_tax > 50 THEN 3
    ELSE IF token_data.buy_tax > 30 \/ token_data.sell_tax > 30 THEN 1
    ELSE 0

check_honeypot(token_data) == token_data.is_honeypot

check_lp_lock(token_data) ==
    IF token_data.lp_lock_days = 0 THEN 2
    ELSE IF token_data.lp_lock_days < 30 THEN 1
    ELSE 0

check_wallet_age(token_data) == token_data.wallet_age_hours < 6

check_fund_source(token_data) == token_data.suspicious_source

check_deployer_history(token_data) == token_data.has_rug_history

check_verified_community(token_data) ==
    token_data.verified /\ token_data.has_community

check_cex_source(token_data) == token_data.from_cex

check_holder_distribution(token_data) == token_data.top10_holders_percent < 20

\* One rule of calculate_risk_score: what it adds to the score and to
\* risk_reasons.
Rule(fires, weight, reason) ==
    IF fires THEN [add |-> weight, why |-> reason]
    ELSE [add |-> 0, why |-> <<>>]

\* The rules in the order the code evaluates them.
ScoreRules(token_data) ==
    << Rule(~check_contract_verified(token_data), 2, <<"unverified">>),
       Rule(check_tax_rate(token_data) > 0, check_tax_rate(token_data),
            IF check_tax_rate(token_data) = 3 THEN <<"high_tax">> ELSE <<>>),
       Rule(check_honeypot(token_data), 5, <<"honeypot">>),
       Rule(check_lp_lock(token_data) > 0, check_lp_lock(token_data),
            <<"lp_unlocked_or_short">>),
       Rule(check_wallet_age(token_data), 2, <<"new_deployer_wallet">>),
       Rule(check_fund_source(token_data), 3, <<"suspicious_funds">>),
       Rule(check_deployer_history(token_data), 4, <<"deployer_rug_history">>),
       Rule(check_verified_community(token_data), -2, <<"verified_community">>),
       Rule(check_cex_source(token_data), -1, <<"cex_funded">>),
       Rule(check_holder_distribution(token_data), -1, <<"well_distributed">>) >>

RECURSIVE SumAdds(_, _)
SumAdds(rules, n) == IF n = 0 THEN 0 ELSE SumAdds(rules, n - 1) + rules[n].add

RECURSIVE CatWhys(_, _)
CatWhys(rules, n) == IF n = 0 THEN <<>> ELSE CatWhys(rules, n - 1) \o rules[n].why

\* Mutant: the score is returned as it is.
Clamp_none(risk_score) == risk_score

\* return max(risk_score, 0)
Clamp(risk_score) == Max2(risk_score, 0)

\* Mutant: risk_reasons is not emptied at the start of a call.
risk_reasons_kept(risk_reasons) == risk_reasons

\* self.risk_reasons = [] at the start of calculate_risk_score.
risk_reasons_reset(risk_reasons) == << >>

\* calculate_risk_score called on the instance `self`: the instance after the
\* call, with what the call returned in last.ret.
RiskScorer_calculate(self, token_data) ==
    LET rules == ScoreRules(token_data)
        risk_score == SumAdds(rules, Len(rules))
    IN  [risk_reasons |-> risk_reasons_reset(self.risk_reasons)
                              \o CatWhys(rules, Len(rules)),
         calls |-> self.calls + 1,
         last |-> [token_data |-> token_data, risk_score |-> risk_score,
                   ret |-> Clamp(risk_score)]]

\* risk_scorer = RiskScorer(); risk_scorer.calculate_risk_score(token_data):
\* the score returned and the risk_reasons the new instance is left with.
calculate_risk_score(token_data) ==
    LET after == RiskScorer_calculate(RiskScorer_init, token_data)
    IN  [score |-> after.last.ret, reasons |-> after.risk_reasons]

\* Two signal bundles of the ranges monitor_new_tokens draws from: one that
\* scores 0 and one that scores 10.
SafeBundle ==
    [verified |-> TRUE, buy_tax |-> 0, sell_tax |-> 0, is_honeypot |-> FALSE,
     lp_lock_days |-> 365, wallet_age_hours |-> 72, suspicious_source |-> FALSE,
     has_rug_history |-> FALSE, has_community |-> TRUE, from_cex |-> TRUE,
     top10_holders_percent |-> 10]

RiskyBundle ==
    [verified |-> FALSE, buy_tax |-> 80, sell_tax |-> 0, is_honeypot |-> TRUE,
     lp_lock_days |-> 30, wallet_age_hours |-> 24, suspicious_source |-> FALSE,
     has_rug_history |-> FALSE, has_community |-> FALSE, from_cex |-> FALSE,
     top10_holders_percent |-> 50]

Bundles == {SafeBundle, RiskyBundle}

(* ---------------------------- AlertManager ---------------------------- *)
\* __init__: sent_alerts = set().  The container is kept with its Python
\* type: a set has members but neither item assignment, subscripting nor
\* items(); `map` holds the members (of a dict: the keys with their values).
AlertManager_init == [type |-> "set", map |-> [k \in {} |-> 0]]

\* should_send_risk_alert: [ret, raised, sent_alerts].  On a set, both
\* sent_alerts[alert_key] = current_time and sent_alerts[alert_key] raise
\* TypeError.
should_send_risk_alert(sa, token_address, risk_score, current_time) ==
    LET alert_key == <<token_address, risk_score>>
    IN  IF risk_score <= RiskAlertFloor
        THEN [ret |-> FALSE, raised |-> "none", sent_alerts |-> sa]
        ELSE IF sa.type = "set"
        THEN [ret |-> FALSE, raised |-> "TypeError", sent_alerts |-> sa]
        ELSE IF alert_key \in DOMAIN sa.map
                /\ current_time - sa.map[alert_key] < alert_cooldown
        THEN [ret |-> FALSE, raised |-> "none", sent_alerts |-> sa]
        ELSE [ret |-> TRUE, raised |-> "none",
              sent_alerts |->
                  [sa EXCEPT !.map = (alert_key :> current_time) @@ sa.map]]

\* should_send_price_alert: the multiple is not in the persisted list.
should_send_price_alert(file, token_address, multiple) ==
    multiple \notin Range(get_price_alerts_sent(load_data(file), token_address))

\* cleanup_old_alerts: [raised, sent_alerts].  A set has no items().
cleanup_old_alerts(sa, current_time) ==
    IF sa.type = "set"
    THEN [raised |-> "AttributeError", sent_alerts |-> sa]
    ELSE [raised |-> "none",
          sent_alerts |->
              [type |-> "dict",
               map |-> [k \in {j \in DOMAIN sa.map :
                                  current_time - sa.map[j] < alert_cooldown}
                        |-> sa.map[k]]]]

(* ------------------------- the cycle's fan-out ------------------------ *)
\* The token_data monitor_new_tokens builds from one pair: parse_pair_data's
\* fields the pipeline reads, and the simulated risk signals.
Pairs(addrs, prices, liquidities) ==
    [address : addrs, symbol : Symbols, priceUsd : prices,
     liquidity : liquidities, signals : Bundles]

validate_token_data(token_data) ==
    /\ token_data.address # ""
    /\ token_data.symbol # ""
    /\ token_data.liquidity # 0
    /\ ~(token_data.liquidity < MinLiquidity)

\* Mutant: gather without return_exceptions.
return_exceptions_default == FALSE

\* asyncio.gather(*analysis_tasks, return_exceptions=True)
return_exceptions == TRUE

\* A coroutine analyze_token_with_risk(token_data) that has not run yet.
NewTask(token_data) ==
    [token |-> token_data,
     pc |-> "ready",
     targets |-> <<>>,        \* target_multiples
     idx |-> 0,               \* position of the loop over target_multiples
     attempted |-> <<>>,      \* history: the multiples handed to send_price_alert
     failed |-> FALSE,        \* history: some send_price_alert returned False
     known |-> {},            \* history: price_alerts_sent when the call began
     stamp |-> -1,            \* history: current_time of its record_token_price
     risk_score |-> -1,
     gate |-> "none",         \* what should_send_risk_alert answered or raised
     result |-> "pending"]    \* "ok": returned its dict; else the exception

\* The tasks created from the pairs that pass validate_token_data, in order.
AnalysisTasks(pairs) ==
    LET Valid(p) == validate_token_data(p)
        kept == SelectSeq(pairs, Valid)
    IN  [i \in 1..Len(kept) |-> NewTask(kept[i])]

\* Mutant: only the highest multiple reached is a target.
TargetMultiples_highest(returns) ==
    IF returns.empty \/ ~(returns.current_price > returns.initial_price)
    THEN <<>>
    ELSE << returns.current_price \div returns.initial_price >>

\* target_multiples: range(2, floor(current_multiple) + 2) filtered by
\* current_multiple >= multiple, for a non-empty returns with multiple > 1.
TargetMultiples(returns) ==
    IF returns.empty \/ ~(returns.current_price > returns.initial_price)
    THEN <<>>
    ELSE LET next_multiple ==
                 (returns.current_price \div returns.initial_price) + 1
             all == [i \in 1..(next_multiple - 1) |-> i + 1]
             Reached(m) == returns.current_price >= m * returns.initial_price
         IN  SelectSeq(all, Reached)

\* What a raised exception does to the awaiting gather.
GatherAfter(state, raised) ==
    IF raised # "none" /\ ~return_exceptions THEN raised ELSE state

\* analyze_token_with_risk from the head of the loop over target_multiples
\* at position k, with the file as `file`, up to its next await or its end.
\* It stops at the first multiple should_send_price_alert lets through (the
\* await of send_telegram_message in send_price_alert); past the loop it
\* scores the token and asks should_send_risk_alert.
Continue(i, t, file, k) ==
    \E open \in {{j \in k..Len(t.targets) :
                      should_send_price_alert(file, t.token.address, t.targets[j])}} :
        IF open # {}
        THEN \E j \in {x \in open : \A y \in open : x <= y} :
                 /\ tasks' = [tasks EXCEPT ![i] =
                        [t EXCEPT !.pc = "sending_price", !.idx = j,
                                  !.attempted = Append(@, t.targets[j])]]
                 /\ UNCHANGED <<sent_alerts, batch>>
        ELSE \E rs \in {calculate_risk_score(t.token.signals)} :
             \E gate \in {should_send_risk_alert(sent_alerts, t.token.address,
                                                 rs.score, now)} :
                 /\ sent_alerts' = gate.sent_alerts
                 /\ tasks' = [tasks EXCEPT ![i] =
                        [t EXCEPT !.idx = Len(t.targets) + 1,
                                  !.risk_score = rs.score,
                                  !.gate = IF gate.raised # "none"
                                           THEN gate.raised
                                           ELSE IF gate.ret THEN "true"
                                           ELSE "false",
                                  !.pc = IF gate.raised = "none" /\ gate.ret
                                         THEN "sending_risk" ELSE "done",
                                  !.result = IF gate.raised # "none"
                                             THEN gate.raised
                                             ELSE IF gate.ret THEN "pending"
                                             ELSE "ok"]]
                 /\ batch' = [batch EXCEPT !.state =
                                  GatherAfter(@, gate.raised)]

\* The first run of task i: record_token_price, calculate_returns, the
\* target multiples, then on as far as the first await.  The event loop
\* starts the gathered coroutines in the order they were passed.
StartTask(i) ==
    /\ batch.state = "gathering"
    /\ tasks[i].pc = "ready"
    /\ \A j \in 1..(i - 1) : tasks[j].pc # "ready"
    /\ \E t \in {tasks[i]} :
       \E saved \in {save_data(record_token_price(load_data(data_file),
                         t.token.address, t.token.symbol, t.token.priceUsd,
                         t.token.liquidity, now))} :
       \E returns \in {calculate_returns(load_data(saved), t.token.address)} :
       \E run \in {[t EXCEPT !.targets = TargetMultiples(returns),
                              !.stamp = now,
                              !.known = Range(get_price_alerts_sent(
                                  load_data(saved), t.token.address))]} :
           /\ data_file' = saved
           /\ now' = ClockAfter(now)
           /\ Continue(i, run, saved, 1)
    /\ UNCHANGED <<cycles, notified, aside>>

\* Mutant: the multiple is marked whatever send_telegram_message returned.
CommitOnSuccess_always(file, token_address, multiple, success) ==
    mark_price_alert_sent(file, token_address, multiple)

\* The end of send_price_alert: `if success:` mark_price_alert_sent.
CommitOnSuccess(file, token_address, multiple, success) ==
    IF success THEN mark_price_alert_sent(file, token_address, multiple)
    ELSE file

\* Mutant: the loop over target_multiples ends at the first failed alert.
NextPosition_break(t, success) ==
    IF success THEN t.idx + 1 ELSE Len(t.targets) + 1

\* `for multiple in target_multiples`: after send_price_alert has returned,
\* whatever became of the alert, the loop takes the next multiple.
NextPosition(t, success) == t.idx + 1

\* send_telegram_message of send_price_alert returns `success`: on True the
\* multiple is marked, and the loop goes on with the next multiple.
SendPriceDone(i, success) ==
    /\ batch.state = "gathering"
    /\ tasks[i].pc = "sending_price"
    /\ \E t \in {tasks[i]} :
       \E m \in {t.targets[t.idx]} :
       \E file \in {CommitOnSuccess(data_file, t.token.address, m, success)} :
       \E run \in {[t EXCEPT !.failed = @ \/ ~success]} :
           /\ data_file' = file
           /\ notified' = IF success
                          THEN [notified EXCEPT ![<<t.token.address, m>>] = @ + 1]
                          ELSE notified
           /\ Continue(i, run, file, NextPosition(t, success))
    /\ UNCHANGED <<now, cycles, aside>>

\* The loop over the gathered results: exceptions are skipped, the
\* quality_tokens of the others (1 for a score <= 6) are added up.
FoundQualityTokens(ts) ==
    Cardinality({i \in 1..Len(ts) :
                    ts[i].result = "ok" /\ ts[i].risk_score <= RiskAlertFloor})

Summarize ==
    /\ batch.state = "gathering"
    /\ \A i \in 1..Len(tasks) : tasks[i].pc = "done"
    /\ batch' = [state |-> "summarized",
                 found_quality_tokens |-> FoundQualityTokens(tasks)]
    /\ UNCHANGED <<data_file, sent_alerts, now, tasks, cycles, notified, aside>>

\* Lines 725-767 for the pairs fetched: the tasks are created and gathered.
FanOut(pairs) ==
    /\ tasks' = AnalysisTasks(pairs)
    /\ batch' = [state |-> "gathering", found_quality_tokens |-> 0]
    /\ cycles' = IF cycles < MaxCycles THEN cycles + 1 ELSE cycles

\* A cycle's batch of analysis coroutines, gathered.  monitor_new_tokens as
\* written never gets this far (MonitorNewTokens below), so the batch is
\* started here on its own, as by a caller that gathers the coroutines.
GatherTasks ==
    /\ batch.state # "gathering"
    /\ cycles < MaxCycles
    /\ \E n \in 1..MaxTasks :
           \E pairs \in [1..n -> Pairs(Addrs, Prices, Liquidities)] :
               FanOut(pairs)
    /\ UNCHANGED <<data_file, sent_alerts, now, notified, aside>>

\* monitor_new_tokens(): cleanup_old_alerts first, then the fetch and the
\* fan-out.  An exception of cleanup_old_alerts leaves the coroutine before
\* any task is created.
MonitorNewTokens ==
    /\ batch.state # "gathering"
    /\ LET c == cleanup_old_alerts(sent_alerts, now)
       IN  IF c.raised # "none"
           THEN /\ batch' = [state |-> c.raised, found_quality_tokens |-> 0]
                /\ tasks' = <<>>
                /\ UNCHANGED <<sent_alerts, cycles>>
           ELSE /\ cycles < MaxCycles
                /\ sent_alerts' = c.sent_alerts
                /\ \E n \in 1..MaxTasks :
                       \E pairs \in [1..n -> Pairs(Addrs, Prices, Liquidities)] :
                           FanOut(pairs)
    /\ UNCHANGED <<data_file, now, notified, aside>>

Init ==
    /\ data_file = [valid |-> TRUE, tokens |-> EmptyTokens]
    /\ sent_alerts = AlertManager_init
    /\ now = 0
    /\ tasks = <<>>
    /\ batch = [state |-> "none", found_quality_tokens |-> 0]
    /\ cycles = 0
    /\ notified = [k \in Addrs \X (2..(MaxPrice + 1)) |-> 0]
    /\ call = [op |-> "none", address |-> "", raised |-> "none", ret |-> << >>,
               warned |-> FALSE]
    /\ boot = [count |-> 0, committed |-> [a \in Addrs |-> {}],
               notified |-> [k \in Addrs \X (2..(MaxPrice + 1)) |-> 0]]
    /\ risk_scorer = RiskScorer_init

Next ==
    \/ GatherTasks
    \/ \E i \in 1..Len(tasks) : StartTask(i)
    \/ \E i \in 1..Len(tasks) : \E success \in BOOLEAN : SendPriceDone(i, success)
    \/ Summarize
    \/ MonitorNewTokens

Spec == Init /\ [][Next]_vars

(* ------------------- the ledger called on its own -------------------- *)
\* data_manager.record_token_price(a, ...) called directly, the price of the
\* n-th call for an address being n, so that a sample tells when it was
\* recorded.
UpsertCall(a) ==
    LET data == load_data(data_file)
        n == IF a \in DOMAIN data THEN data[a].current_price ELSE 0
    IN  /\ n < MaxUpserts
        /\ data_file' = save_data(record_token_price(data, a, "TKN", n + 1,
                                                     1000, now))
        /\ now' = ClockAfter(now)
        /\ UNCHANGED <<sent_alerts, tasks, batch, cycles, notified, aside>>

NextHist == \E a \in Addrs : UpsertCall(a)

SpecHist == Init /\ [][NextHist]_vars

(* ------------- cycles without end, for the liveness claim ------------ *)
\* One token whose first price is 1 and whose price is 3 in every later
\* cycle: the milestones 2 and 3 are crossed and stay crossed.
LivePairs ==
    LET data == load_data(data_file)
    IN  Pairs({"a1"}, IF "a1" \in DOMAIN data THEN {3} ELSE {1}, {1000})

\* The scheduler starts the next cycle, one listing of the token in each.
GatherLive ==
    /\ batch.state # "gathering"
    /\ \E pairs \in [1..1 -> LivePairs] : FanOut(pairs)
    /\ UNCHANGED <<data_file, sent_alerts, now, notified, aside>>

NextLive ==
    \/ GatherLive
    \/ \E i \in 1..Len(tasks) : StartTask(i)
    \/ \E i \in 1..Len(tasks) : \E success \in BOOLEAN : SendPriceDone(i, success)
    \/ Summarize

\* Fairness: the scheduler keeps starting cycles, the event loop runs every
\* coroutine that can run, every send returns (its 10 s timeout), and the
\* notifier, asked again and again, succeeds in the end.
SpecLive ==
    /\ Init
    /\ [][NextLive]_vars
    /\ WF_vars(GatherLive)
    /\ WF_vars(\E i \in 1..Len(tasks) : StartTask(i))
    /\ WF_vars(\E i \in 1..Len(tasks) : \E success \in BOOLEAN :
                   SendPriceDone(i, success))
    /\ SF_vars(\E i \in 1..Len(tasks) : SendPriceDone(i, TRUE))
    /\ WF_vars(Summarize)

(* ------------- the ledger operations called one by one --------------- *)
\* A call of a TokenDataManager method whose load_data raised: nothing but
\* the exception reaches the caller.
Raised(op, a, exception) ==
    /\ call' = [op |-> op, address |-> a, raised |-> exception, ret |-> << >>,
                warned |-> FALSE]
    /\ UNCHANGED <<data_file, now>>

RecordCall(a, symbol, price, liquidity) ==
    /\ \E r \in {load_data_try(data_file)} :
           IF r.raised # "none" THEN Raised("record_token_price", a, r.raised)
           ELSE /\ a \in DOMAIN r.data => Len(r.data[a].price_history) < MaxSamples
                /\ data_file' = save_data(record_token_price(r.data, a, symbol,
                                              price, liquidity, now))
                /\ now' = ClockAfter(now)
                /\ call' = [op |-> "record_token_price", address |-> a,
                            raised |-> "none", ret |-> << >>,
                            warned |-> r.warned]
    /\ UNCHANGED <<sent_alerts, tasks, batch, cycles, notified, boot, risk_scorer>>

ReturnsCall(a) ==
    /\ \E r \in {load_data_try(data_file)} :
           IF r.raised # "none" THEN Raised("calculate_returns", a, r.raised)
           ELSE /\ call' = [op |-> "calculate_returns", address |-> a,
                            raised |-> "none",
                            ret |-> calculate_returns(r.data, a),
                            warned |-> r.warned]
                /\ UNCHANGED <<data_file, now>>
    /\ UNCHANGED <<sent_alerts, tasks, batch, cycles, notified, boot, risk_scorer>>

AlertsSentCall(a) ==
    /\ \E r \in {load_data_try(data_file)} :
           IF r.raised # "none" THEN Raised("get_price_alerts_sent", a, r.raised)
           ELSE /\ call' = [op |-> "get_price_alerts_sent", address |-> a,
                            raised |-> "none",
                            ret |-> get_price_alerts_sent(r.data, a),
                            warned |-> r.warned]
                /\ UNCHANGED <<data_file, now>>
    /\ UNCHANGED <<sent_alerts, tasks, batch, cycles, notified, boot, risk_scorer>>

MarkCall(a, multiple) ==
    /\ \E r \in {load_data_try(data_file)} :
           IF r.raised # "none" THEN Raised("mark_price_alert_sent", a, r.raised)
           ELSE /\ data_file' = mark_price_alert_sent(data_file, a, multiple)
                /\ call' = [op |-> "mark_price_alert_sent", address |-> a,
                            raised |-> "none", ret |-> << >>,
                            warned |-> r.warned]
                /\ UNCHANGED now
    /\ UNCHANGED <<sent_alerts, tasks, batch, cycles, notified, boot, risk_scorer>>

\* What the callers pass to record_token_price: observations that differ in
\* symbol, price and liquidity.
Observations ==
    {[symbol |-> "TKN", price |-> 1, liquidity |-> 1000],
     [symbol |-> "TKN2", price |-> MaxPrice, liquidity |-> 2000]}

NextLedger ==
    \/ \E a \in Addrs : \E o \in Observations :
           RecordCall(a, o.symbol, o.price, o.liquidity)
    \/ \E a \in Addrs : ReturnsCall(a)
    \/ \E a \in Addrs : AlertsSentCall(a)
    \/ \E a \in Addrs : MarkCall(a, 2)

SpecLedger == Init /\ [][NextLedger]_vars

\* The file is removed, or its content can no longer be read or parsed.
StoreFails ==
    /\ data_file.valid
    /\ data_file' = [data_file EXCEPT !.valid = FALSE]
    /\ UNCHANGED <<sent_alerts, now, tasks, batch, cycles, notified, aside>>

NextStore == NextLedger \/ StoreFails

SpecStore == Init /\ [][NextStore]_vars

(* ------------------- the trailing return over time ------------------ *)
\* calculate_returns(a) called directly, for its return_24h: `at` is the
\* datetime.now() of the call.
TrailingReturnCall(a) ==
    /\ \E r \in {load_data_try(data_file)} :
           IF r.raised # "none" THEN Raised("return_24h", a, r.raised)
           ELSE /\ call' =
                     [op |-> "return_24h", address |-> a, raised |-> "none",
                      warned |-> r.warned,
                      ret |-> IF calculate_returns(r.data, a).empty
                              THEN [empty |-> TRUE, at |-> now]
                              ELSE [empty |-> FALSE, at |-> now,
                                    price_24h_ago |->
                                        price_24h_ago(r.data[a], now),
                                    return_24h |->
                                        return_24h(r.data[a].current_price,
                                            price_24h_ago(r.data[a], now))]]
                /\ UNCHANGED <<data_file, now>>
    /\ UNCHANGED <<sent_alerts, tasks, batch, cycles, notified, boot, risk_scorer>>

\* Twelve hours go by.
TimePasses ==
    /\ now \div (Hours24 \div 2) < MaxHalfDays
    /\ now' = now + (Hours24 \div 2)
    /\ UNCHANGED <<data_file, sent_alerts, tasks, batch, cycles, notified, aside>>

NextReturns ==
    \/ \E price \in Prices : RecordCall("a1", "TKN", price, 1000)
    \/ TrailingReturnCall("a1")
    \/ TimePasses

SpecReturns == Init /\ [][NextReturns]_vars

(* ------------------------- process restarts -------------------------- *)
\* The process is stopped and started again: the coroutines in flight are
\* gone, alert_manager is a new AlertManager(), the ledger file is the one
\* the old process left.  `boot` notes what was committed and notified.
Restart ==
    /\ boot.count < MaxRestarts
    /\ sent_alerts' = AlertManager_init
    /\ tasks' = <<>>
    /\ batch' = [state |-> "none", found_quality_tokens |-> 0]
    /\ boot' = [count |-> boot.count + 1,
                committed |-> [a \in Addrs |->
                    Range(get_price_alerts_sent(load_data(data_file), a))],
                notified |-> notified]
    /\ UNCHANGED <<data_file, now, cycles, notified, call, risk_scorer>>

\* A cycle's batch for one token, listed once or several times.
GatherOneToken ==
    /\ batch.state # "gathering"
    /\ cycles < MaxCycles
    /\ \E n \in 1..MaxTasks :
           \E pairs \in [1..n -> Pairs({"a1"}, Prices, {1000})] : FanOut(pairs)
    /\ UNCHANGED <<data_file, sent_alerts, now, notified, aside>>

NextRestart ==
    \/ GatherOneToken
    \/ \E i \in 1..Len(tasks) : StartTask(i)
    \/ \E i \in 1..Len(tasks) : \E success \in BOOLEAN : SendPriceDone(i, success)
    \/ Summarize
    \/ Restart

SpecRestart == Init /\ [][NextRestart]_vars

(* ---------------------- the scorer called alone ---------------------- *)
\* A signal bundle with the liquidity of its token_data.
WithLiquidity(signals, liquidity) ==
    [verified |-> signals.verified, buy_tax |-> signals.buy_tax,
     sell_tax |-> signals.sell_tax, is_honeypot |-> signals.is_honeypot,
     lp_lock_days |-> signals.lp_lock_days,
     wallet_age_hours |-> signals.wallet_age_hours,
     suspicious_source |-> signals.suspicious_source,
     has_rug_history |-> signals.has_rug_history,
     has_community |-> signals.has_community, from_cex |-> signals.from_cex,
     top10_holders_percent |-> signals.top10_holders_percent,
     liquidity |-> liquidity]

\* The bundles scored: every signal on each side of each threshold of the
\* scorer, and a liquidity in each of the three tiers 5,000 and 30,000 bound.
ScoreBundles ==
    [verified : BOOLEAN, buy_tax : {0, 40, 80}, sell_tax : {0, 80},
     is_honeypot : BOOLEAN, lp_lock_days : {0, 10, 365},
     wallet_age_hours : {1, 72}, suspicious_source : BOOLEAN,
     has_rug_history : BOOLEAN, has_community : BOOLEAN, from_cex : BOOLEAN,
     top10_holders_percent : {10, 50}, liquidity : {1000, 10000, 50000}]

\* The bundles of the calls made before or after a call with any bundle.
EarlierBundles ==
    {WithLiquidity(SafeBundle, 50000), WithLiquidity(RiskyBundle, 1000)}

\* risk_scorer.calculate_risk_score(token_data) on the instance kept in
\* risk_scorer.
ScoreCall(token_data) ==
    /\ risk_scorer.calls < MaxCalls
    /\ risk_scorer' = RiskScorer_calculate(risk_scorer, token_data)
    /\ UNCHANGED <<data_file, sent_alerts, now, tasks, batch, cycles, notified,
                   call, boot>>

\* Any bundle is scored first, or after one of EarlierBundles; otherwise one
\* of EarlierBundles is.
NextScore ==
    \E token_data \in
           (IF risk_scorer.calls = 0
            THEN ScoreBundles
            ELSE IF risk_scorer.last.token_data \in EarlierBundles
            THEN ScoreBundles
            ELSE EarlierBundles) :
        ScoreCall(token_data)

SpecScore == Init /\ [][NextScore]_vars

(* ------------------ pairs as DexScreener returns them ----------------- *)
\* A key of a pair is a set: empty when the key is absent, else holding its
\* value.  pair.get(key, default):
Get(field, default) == IF field = {} THEN default ELSE CHOOSE x \in field : TRUE

Opt(values) == {{}} \cup {{v} : v \in values}

\* Pairs with any of address, symbol, priceUsd and liquidity absent.  No key
\* that is present holds the value parse_pair_data puts for an absent one.
RawPairs ==
    [address : Opt({"a1"}), symbol : Opt(Symbols),
     priceUsd : Opt(1..MaxPrice), liquidity : Opt({1000})]

\* parse_pair_data: the fields the pipeline reads, with their defaults.
parse_pair_data(pair) ==
    [address |-> Get(pair.address, ""),
     symbol |-> Get(pair.symbol, "Unknown"),
     liquidity |-> Get(pair.liquidity, 0),
     priceUsd |-> Get(pair.priceUsd, 0)]

\* token_data.update({...}) with the simulated risk signals.
WithSignals(token_data, signals) ==
    [address |-> token_data.address, symbol |-> token_data.symbol,
     priceUsd |-> token_data.priceUsd, liquidity |-> token_data.liquidity,
     signals |-> signals]

\* One pair fetched, parsed, validated and gathered.
GatherParsed ==
    /\ batch.state # "gathering"
    /\ cycles < MaxCycles
    /\ \E pair \in RawPairs : \E signals \in Bundles :
           FanOut(<< WithSignals(parse_pair_data(pair), signals) >>)
    /\ UNCHANGED <<data_file, sent_alerts, now, notified, aside>>

NextIntake ==
    \/ GatherParsed
    \/ \E i \in 1..Len(tasks) : StartTask(i)
    \/ \E i \in 1..Len(tasks) : \E success \in BOOLEAN : SendPriceDone(i, success)
    \/ Summarize

SpecIntake == Init /\ [][NextIntake]_vars

(* ------------------------------ claims ------------------------------- *)
Tokens == load_data(data_file)

Committed(a) == Range(get_price_alerts_sent(Tokens, a))

Started(t) == t.pc # "ready"

PastLoop(t) == Started(t) /\ t.idx = Len(t.targets) + 1

\* The target positions task t has dealt with so far.
Reached(t) == 1..Min2(t.idx, Len(t.targets))

\* Task i is the only task of its batch for its address.
Alone(i) ==
    \A j \in 1..Len(tasks) :
        j # i => tasks[j].token.address # tasks[i].token.address

\* The integers of [2, floor(x)] for the price multiple x of task t: its own
\* price over the initial price of the record.
MilestonesOf(t) ==
    LET init == Tokens[t.token.address].initial_price
        hi == IF init > 0 /\ t.token.priceUsd > init
              THEN t.token.priceUsd \div init ELSE 1
    IN  [j \in 1..(hi - 1) |-> j + 1]

\* C1: across the cycles and the interleavings of the tasks of a cycle, a
\* milestone m of a token is successfully notified at most once.
C1_MilestoneNotifiedAtMostOnce == \A k \in DOMAIN notified : notified[k] <= 1

\* C2: no skipped milestones.  For a price multiple x > 1 and a committed
\* set S at the call, the call attempts exactly the integers of [2, floor(x)]
\* that are not in S, in strictly increasing order: never one outside that
\* set, and none of it is passed over unless it has been committed meanwhile
\* (by a task for the same address in the same batch).
C2_NoSkippedMilestones ==
    \A i \in 1..Len(tasks) :
        LET t == tasks[i]
            NotKnown(m) == m \notin t.known
        IN  Started(t) =>
              /\ t.targets = MilestonesOf(t)
              /\ \A j \in 1..(Len(t.attempted) - 1) :
                     t.attempted[j] < t.attempted[j + 1]
              /\ Range(t.attempted) \subseteq Range(t.targets) \ t.known
              /\ \A j \in Reached(t) :
                     \/ t.targets[j] \in Range(t.attempted)
                     \/ t.targets[j] \in Committed(t.token.address)
              /\ Alone(i) =>
                     t.attempted =
                         SelectSeq(SubSeq(t.targets, 1, Min2(t.idx, Len(t.targets))),
                                   NotKnown)

C2_Witness ==
    \E i \in 1..Len(tasks) :
        /\ PastLoop(tasks[i])
        /\ tasks[i].known = {}
        /\ tasks[i].token.priceUsd = 3
        /\ tasks[i].attempted = <<2, 3>>

\* C3: idempotent milestone commit.  Once an analysis call has gone through
\* its milestones with every notification delivered, no milestone of
\* [2, floor(multiple)] passes should_send_price_alert any more; and a call
\* that begins with all of them committed attempts none.
C3_IdempotentCommit ==
    \A i \in 1..Len(tasks) :
        LET t == tasks[i]
        IN  /\ (PastLoop(t) /\ ~t.failed) =>
                   \A m \in Range(t.targets) :
                       ~should_send_price_alert(data_file, t.token.address, m)
            /\ (Started(t) /\ Range(t.targets) \subseteq t.known) =>
                   t.attempted = <<>>

\* A second analysis, in a later cycle, at a multiple >= 2, that found
\* nothing to notify.
C3_Witness ==
    /\ cycles = 2
    /\ \E i \in 1..Len(tasks) :
           /\ PastLoop(tasks[i])
           /\ tasks[i].targets # <<>>
           /\ Range(tasks[i].targets) \subseteq tasks[i].known
           /\ tasks[i].attempted = <<>>

\* The price of address a is at m times its initial price or above.
Crossed(a, m) ==
    /\ a \in DOMAIN Tokens
    /\ Tokens[a].initial_price > 0
    /\ Tokens[a].current_price >= m * Tokens[a].initial_price

\* Task i is awaiting the delivery of milestone m of address a.
Sending(i, a, m) ==
    /\ tasks[i].pc = "sending_price"
    /\ tasks[i].token.address = a
    /\ tasks[i].targets[tasks[i].idx] = m

\* A milestone enters the committed set only in the step in which a task
\* that was sending it had it delivered: a failed dispatch commits nothing.
CommitOnlyOnDelivery ==
    \A a \in Addrs : \A m \in 2..(MaxPrice + 1) :
        (m \in Committed(a)' /\ m \notin Committed(a)) =>
            \E i \in 1..Len(tasks) :
                /\ Sending(i, a, m)
                /\ notified'[<<a, m>>] = notified[<<a, m>>] + 1

\* Every analysis attempts each milestone it has reached that is not
\* committed: an uncommitted milestone is attempted again in the next cycle.
UncommittedIsAttempted ==
    \A i \in 1..Len(tasks) :
        \A j \in Reached(tasks[i]) :
            \/ tasks[i].targets[j] \in Range(tasks[i].attempted)
            \/ tasks[i].targets[j] \in Committed(tasks[i].token.address)

SampleOf(t) ==
    [timestamp |-> t.stamp, price |-> t.token.priceUsd,
     liquidity |-> t.token.liquidity]

Occurrences(seq, x) == Cardinality({j \in 1..Len(seq) : seq[j] = x})

HistoryPrices(a) ==
    {Tokens[a].price_history[j].price : j \in 1..Len(Tokens[a].price_history)}

\* C5: concurrent upsert safety.  The samples of all the tasks of a batch
\* that have run record_token_price for one address are in the persisted
\* price_history (each as often as it was recorded), and highest_price and
\* lowest_price are the extrema of the recorded prices.
C5_ConcurrentUpsertSafety ==
    \A i \in 1..Len(tasks) :
        LET t == tasks[i]
            a == t.token.address
            same == {j \in 1..Len(tasks) :
                        /\ Started(tasks[j])
                        /\ tasks[j].token.address = a
                        /\ SampleOf(tasks[j]) = SampleOf(t)}
        IN  Started(t) =>
              /\ a \in DOMAIN Tokens
              /\ Occurrences(Tokens[a].price_history, SampleOf(t))
                     >= Cardinality(same)
              /\ \A p \in HistoryPrices(a) :
                     Tokens[a].lowest_price <= p /\ p <= Tokens[a].highest_price
              /\ Tokens[a].highest_price \in HistoryPrices(a)
              /\ Tokens[a].lowest_price \in HistoryPrices(a)

\* Two tasks of one batch for one address, both awaiting their send, with
\* different prices.
C5_Witness ==
    /\ Len(tasks) = 2
    /\ tasks[1].token.address = tasks[2].token.address
    /\ tasks[1].pc = "sending_price"
    /\ tasks[2].pc = "sending_price"
    /\ tasks[1].token.priceUsd = 2
    /\ tasks[2].token.priceUsd = 3
    /\ Tokens[tasks[1].token.address].highest_price = 3
    /\ Len(Tokens[tasks[1].token.address].price_history) = 3

\* C6: cooldown gating.  For score 10 the gate answers true or false, and
\* false only when an entry for (address, 10) exists: the first call for a
\* key returns true.
C6_CooldownGating ==
    \A i \in 1..Len(tasks) :
        LET t == tasks[i]
        IN  (t.gate # "none" /\ t.risk_score = 10) =>
              /\ t.gate \in {"true", "false"}
              /\ t.gate = "false" =>
                     <<t.token.address, 10>> \in DOMAIN sent_alerts.map

\* C7 (under SpecHist, where the n-th price of an address is n): bounded
\* history.  A price_history never has more than 100 samples; after n
\* upserts it has min(n, 100) of them, the most recent ones in the order
\* they were recorded.
C7_BoundedHistory ==
    \A a \in DOMAIN Tokens :
        LET h == Tokens[a].price_history
            n == Tokens[a].current_price
        IN  /\ Len(h) <= HistoryCap
            /\ Len(h) = Min2(n, HistoryCap)
            /\ \A j \in 1..Len(h) : h[j].price = n - Len(h) + j

\* 105 upserts for one address: 100 samples, the 6th to the 105th.
C7_Witness ==
    \E a \in DOMAIN Tokens :
        /\ Tokens[a].current_price = HistoryCap + 5
        /\ Len(Tokens[a].price_history) = HistoryCap
        /\ Tokens[a].price_history[1].price = 6
        /\ Tokens[a].price_history[HistoryCap].price = HistoryCap + 5

\* C8: after a zero first observation, initial_price is set from the first
\* later non-zero sample, so a token with a non-zero sample in its history
\* has a non-empty calculate_returns.
C8_InitialPriceFromFirstNonZero ==
    \A a \in DOMAIN Tokens :
        (\E p \in HistoryPrices(a) : p > 0) =>
            /\ Tokens[a].initial_price > 0
            /\ ~calculate_returns(Tokens, a).empty

\* C9: an exception raised while one token is analysed does not end the
\* gather: the siblings stay able to run until they are done, and the cycle
\* is summarized over all its tasks with the failed ones left out.
C9_TaskFailureIsolated ==
    /\ batch.state # "TypeError"
    /\ (\E i \in 1..Len(tasks) : tasks[i].pc # "done") => batch.state = "gathering"
    /\ batch.state = "summarized" =>
           batch.found_quality_tokens =
               Cardinality({i \in 1..Len(tasks) :
                               /\ tasks[i].result # "TypeError"
                               /\ tasks[i].risk_score <= RiskAlertFloor})

\* A summarized cycle in which the first task raised and its sibling, which
\* finished after it, is counted.
C9_Witness ==
    /\ batch.state = "summarized"
    /\ Len(tasks) = 2
    /\ tasks[1].result = "TypeError"
    /\ tasks[2].result = "ok"
    /\ tasks[2].attempted # <<>>
    /\ batch.found_quality_tokens = 1

\* C10: every cycle started by monitor_new_tokens reaches its summary: it is
\* under way or summarized, never ended by an exception.
C10_CycleReachesSummarize == batch.state \in {"none", "gathering", "summarized"}

\* What parse_pair_data makes of a pair without address, symbol or price.
Malformed(token_data) ==
    \/ token_data.address = ""
    \/ token_data.symbol = "Unknown"
    \/ token_data.priceUsd = 0

\* C11 (under SpecIntake): a pair with a missing address, symbol or price is
\* dropped before the ledger: no analysis runs for it, and no record is
\* created or updated from it.
C11_MalformedPairDropped ==
    /\ \A i \in 1..Len(tasks) : ~Malformed(tasks[i].token)
    /\ \A a \in DOMAIN Tokens :
           /\ a # ""
           /\ Tokens[a].symbol # "Unknown"
           /\ 0 \notin HistoryPrices(a)

\* C12 (under SpecStore): a record, once created, is never deleted: an
\* address in the persisted document is in it after every step, a failed read
\* followed by a save included.
C12_RecordNeverDeleted ==
    [][DOMAIN data_file.tokens \subseteq DOMAIN data_file'.tokens]_vars

C14_SetOnceFieldsImmutable ==
    [][\A a \in DOMAIN Tokens :
           /\ a \in DOMAIN Tokens'
           /\ Tokens'[a].first_seen = Tokens[a].first_seen
           /\ Tokens'[a].initial_price = Tokens[a].initial_price
           /\ Tokens'[a].initial_liquidity = Tokens[a].initial_liquidity]_vars

\* A record after a second upsert with another symbol, price and liquidity.
C14_Witness ==
    \E a \in DOMAIN Tokens :
        LET h == Tokens[a].price_history
        IN  /\ Len(h) = 2
            /\ h[1].price # h[2].price
            /\ h[1].liquidity # h[2].liquidity
            /\ Tokens[a].first_seen = h[1].timestamp
            /\ Tokens[a].first_seen < Tokens[a].last_updated
            /\ Tokens[a].initial_price = h[1].price
            /\ Tokens[a].initial_liquidity = h[1].liquidity
            /\ Tokens[a].current_price = h[2].price

\* The persisted price_alerts_sent of address a.
AlertsSent(a) == get_price_alerts_sent(Tokens, a)

IsPrefix(s1, s2) == Len(s1) <= Len(s2) /\ SubSeq(s2, 1, Len(s1)) = s1

\* price_alerts_sent keeps its members and their order, and a milestone
\* enters it only in a step in which a task that was sending it, its price at
\* m times the initial price or above, had it delivered.
CommittedSetGrowsOnDelivery ==
    \A a \in Addrs :
        /\ IsPrefix(AlertsSent(a), AlertsSent(a)')
        /\ \A m \in Range(AlertsSent(a)') \ Range(AlertsSent(a)) :
               \E i \in 1..Len(tasks) :
                   /\ Sending(i, a, m)
                   /\ notified'[<<a, m>>] = notified[<<a, m>>] + 1
                   /\ Tokens[a].initial_price > 0
                   /\ tasks[i].token.priceUsd >= m * Tokens[a].initial_price

\* price_alerts_sent has no duplicates and holds only integers >= 2 that were
\* notified, each reached by the price of the token.
CommittedSetIsEmitted ==
    \A a \in Addrs :
        /\ Cardinality(Range(AlertsSent(a))) = Len(AlertsSent(a))
        /\ \A m \in Range(AlertsSent(a)) :
               /\ m \in Nat /\ m >= 2
               /\ notified[<<a, m>>] >= 1
               /\ Tokens[a].highest_price >= m * Tokens[a].initial_price

\* C15: the committed milestone set of a token only grows, has no duplicates
\* and only integers >= 2, and each member was inserted after a successful
\* notification for it, made when the price multiple was at or above it.
C15_CommittedSetMonotone ==
    /\ [][CommittedSetGrowsOnDelivery]_vars
    /\ []CommittedSetIsEmitted

\* Milestones 2 and 3 of a token committed in this order, 3 in a later cycle
\* than 2.
C15_Witness ==
    /\ AlertsSent("a1") = <<2, 3>>
    /\ notified[<<"a1", 2>>] >= 1
    /\ notified[<<"a1", 3>>] >= 1
    /\ Len(Tokens["a1"].price_history) >= 3

\* A milestone committed before the last restart has not been notified
\* since.
CommittedSurvivesRestart ==
    boot.count > 0 =>
        \A a \in Addrs : \A m \in boot.committed[a] :
            notified[<<a, m>>] = boot.notified[<<a, m>>]

\* After a restart a risk alert with a score above the floor is refused only
\* for an entry made since the restart: the first one for an (address, score)
\* is allowed, whatever was allowed before the restart.
CooldownForgottenAtRestart ==
    boot.count > 0 =>
        \A i \in 1..Len(tasks) :
            LET t == tasks[i]
            IN  (t.gate # "none" /\ t.risk_score > RiskAlertFloor) =>
                  \/ t.gate = "true"
                  \/ /\ t.gate = "false"
                     /\ <<t.token.address, t.risk_score>> \in DOMAIN sent_alerts.map

\* C16 (under SpecRestart): milestone dedup survives a restart, the
\* risk-alert cooldown does not: a milestone committed before the restart is
\* never notified again, and a risk alert for an unchanged (address, score)
\* is allowed again after it.
C16_DedupSurvivesRestartCooldownDoesNot ==
    /\ CommittedSurvivesRestart
    /\ CooldownForgottenAtRestart

\* C17 (under SpecScore): score floor.  Whatever the bundle, also one with
\* every mitigating signal and no risk signal, calculate_risk_score returns
\* an integer >= 0.
C17_ScoreFloor ==
    risk_scorer.calls > 0 => (risk_scorer.last.ret \in Int /\ risk_scorer.last.ret >= 0)

\* A bundle whose rules add up to less than 0 was scored 0.
C17_Witness ==
    /\ risk_scorer.calls > 0
    /\ risk_scorer.last.risk_score = -4
    /\ risk_scorer.last.ret = 0

RuleListPlace(reason) ==
    CASE reason = "unverified" -> 1
      [] reason = "low_liquidity" -> 2
      [] reason = "honeypot" -> 3
      [] reason = "high_tax" -> 4
      [] reason = "lp_unlocked_or_short" -> 5
      [] reason = "new_deployer_wallet" -> 6
      [] reason = "deployer_rug_history" -> 7
      [] reason = "well_distributed" -> 8
      [] reason = "verified_community" -> 9
      [] reason = "cex_funded" -> 10
      [] OTHER -> 0

\* C19 (under SpecScore): the reasons come in the order of the rule list:
\* unverified, liquidity, honeypot, tax, LP lock, deployer wallet age,
\* deployer rug history, holder concentration, verified+community,
\* CEX-funded.
C19_ReasonsInRuleListOrder ==
    LET r == risk_scorer.risk_reasons
    IN  \A i \in 1..Len(r) : \A j \in (i + 1)..Len(r) :
            (RuleListPlace(r[i]) > 0 /\ RuleListPlace(r[j]) > 0) =>
                RuleListPlace(r[i]) < RuleListPlace(r[j])

\* The bundle with the liquidity of the highest tier and every other signal
\* as in token_data, scored on a new instance.
TopTierTwin(token_data) ==
    RiskScorer_calculate(RiskScorer_init, [token_data EXCEPT !.liquidity = 50000])

\* C20 (under SpecScore): the liquidity tier.  Against the bundle that
\* differs in liquidity only and has more than 30,000, a liquidity below
\* 5,000 adds 3 to the score before the clamp and one reason, a liquidity
\* from 5,000 to 30,000 adds 1, a higher one adds 0.
C20_LiquidityTier ==
    risk_scorer.calls > 0 =>
        LET token_data == risk_scorer.last.token_data
            twin == TopTierTwin(token_data)
            added == risk_scorer.last.risk_score - twin.last.risk_score
        IN  /\ token_data.liquidity < 5000 =>
                /\ added = 3
                /\ Len(risk_scorer.risk_reasons) = Len(twin.risk_reasons) + 1
            /\ (token_data.liquidity >= 5000 /\ token_data.liquidity <= 30000) =>
                added = 1
            /\ token_data.liquidity > 30000 => added = 0

\* The bundle with no tax and every other signal as in token_data, scored
\* on a new instance.
NoTaxTwin(token_data) ==
    RiskScorer_calculate(RiskScorer_init,
                         [token_data EXCEPT !.buy_tax = 0, !.sell_tax = 0])

\* C21 (under SpecScore): the tax rule.  Against the bundle that differs in
\* having no tax, a buy or sell tax above 5% adds 3 and the high-tax reason,
\* a highest tax above 3% and up to 5% adds 1, and whatever the tax adds to
\* the score comes with one more entry in reasons.
C21_TaxRuleHasReason ==
    risk_scorer.calls > 0 =>
        LET token_data == risk_scorer.last.token_data
            tax == Max2(token_data.buy_tax, token_data.sell_tax)
            twin == NoTaxTwin(token_data)
            added == risk_scorer.last.risk_score - twin.last.risk_score
        IN  /\ tax > 50 =>
                (added = 3 /\ "high_tax" \in Range(risk_scorer.risk_reasons))
            /\ (tax > 30 /\ tax <= 50) => added = 1
            /\ added > 0 =>
                Len(risk_scorer.risk_reasons) = Len(twin.risk_reasons) + 1

\* The cooldown key of the risk alert of task t.
AlertKey(t) == <<t.token.address, t.risk_score>>

\* C22: the risk-alert gate answers false only when an entry for the key
\* (address, score) exists that is younger than the cooldown window; in every
\* other case, whatever the score, it answers true and the key has an entry.
C22_GateSuppressesOnlyInsideWindow ==
    \A i \in 1..Len(tasks) :
        LET t == tasks[i]
        IN  t.gate # "none" =>
              /\ t.gate \in {"true", "false"}
              /\ AlertKey(t) \in DOMAIN sent_alerts.map
              /\ t.gate = "false" =>
                     t.stamp - sent_alerts.map[AlertKey(t)] < alert_cooldown

\* C23: calculate_returns is empty for an address without a record and for
\* a record whose initial_price is zero; an analysis of such a token attempts
\* no milestone and goes on to the scoring.
C23_NoDataNoMilestone ==
    /\ \A a \in Addrs :
           (a \notin DOMAIN Tokens \/ Tokens[a].initial_price = 0) =>
               calculate_returns(Tokens, a).empty
    /\ \A i \in 1..Len(tasks) :
           LET t == tasks[i]
           IN  (Started(t) /\ Tokens[t.token.address].initial_price = 0) =>
                   /\ t.targets = << >>
                   /\ t.attempted = << >>
                   /\ t.pc # "sending_price"
                   /\ t.risk_score >= 0

\* A token first seen at price 0 and analysed again at price 2 or more: the
\* analysis returned its result, nothing attempted.
C23_Witness ==
    \E i \in 1..Len(tasks) :
        LET t == tasks[i]
        IN  /\ Started(t)
            /\ Tokens[t.token.address].initial_price = 0
            /\ Len(Tokens[t.token.address].price_history) >= 2
            /\ t.token.priceUsd >= 2
            /\ t.attempted = << >>
            /\ t.result = "ok"

\* No upsert lowers highest_price or raises lowest_price.
ExtremaMonotone ==
    \A a \in DOMAIN Tokens :
        /\ a \in DOMAIN Tokens'
        /\ Tokens'[a].highest_price >= Tokens[a].highest_price
        /\ Tokens'[a].lowest_price <= Tokens[a].lowest_price

\* The extrema bracket the current price and are the greatest and the least
\* of the prices recorded.
ExtremaOfObserved ==
    \A a \in DOMAIN Tokens :
        /\ Tokens[a].lowest_price <= Tokens[a].current_price
        /\ Tokens[a].current_price <= Tokens[a].highest_price
        /\ Tokens[a].highest_price \in HistoryPrices(a)
        /\ Tokens[a].lowest_price \in HistoryPrices(a)
        /\ \A p \in HistoryPrices(a) :
               Tokens[a].lowest_price <= p /\ p <= Tokens[a].highest_price

\* C24: running extrema.  Over any sequence of upserts highest_price never
\* decreases and lowest_price never increases, and after every upsert
\* lowest_price <= current_price <= highest_price, the two extrema being the
\* max and the min of the prices observed.
C24_RunningExtrema ==
    /\ [][ExtremaMonotone]_vars
    /\ []ExtremaOfObserved

\* A record after a rise and a fall: the current price strictly between the
\* extrema.
C24_Witness ==
    \E a \in DOMAIN Tokens :
        /\ Len(Tokens[a].price_history) >= 3
        /\ Tokens[a].lowest_price < Tokens[a].current_price
        /\ Tokens[a].current_price < Tokens[a].highest_price
        /\ Tokens[a].price_history[1].price # Tokens[a].highest_price

\* The samples (positions) of history h that were 24 hours old at time t.
DayOld(h, t) == {j \in 1..Len(h) : h[j].timestamp <= t - Hours24}

\* C25 (under SpecReturns): the trailing-return anchor is the price of the
\* newest sample that is at least 24 hours old, or initial_price when there
\* is none, and the trailing return is the percentage change from the anchor
\* to current_price, 0 when the anchor is 0.
C25_TrailingReturnAnchor ==
    (call.op = "return_24h" /\ ~call.ret.empty) =>
        LET td == Tokens[call.address]
            old == DayOld(td.price_history, call.ret.at)
            anchor == call.ret.price_24h_ago
        IN  /\ old = {} => anchor = td.initial_price
            /\ old # {} =>
                   \E j \in old :
                       /\ \A k \in old : k <= j
                       /\ anchor = td.price_history[j].price
            /\ anchor = 0 => call.ret.return_24h = <<0, 1>>
            /\ anchor > 0 =>
                   call.ret.return_24h =
                       <<(td.current_price - anchor) * 100, anchor>>

\* Two samples with different prices, both a day old at the call: the anchor
\* is the later one.
C25_Witness ==
    /\ call.op = "return_24h"
    /\ ~call.ret.empty
    /\ LET h == Tokens[call.address].price_history
       IN  /\ DayOld(h, call.ret.at) = {1, 2}
           /\ h[1].price # h[2].price
           /\ call.ret.price_24h_ago = h[2].price

\* An analysis that is past its loop with a failed alert behind it has left
\* out no milestone: each target was attempted, or was committed when the call
\* began or by a task for the same address since.
FailureDoesNotStopLoop ==
    \A i \in 1..Len(tasks) :
        LET t == tasks[i]
        IN  (PastLoop(t) /\ t.failed) =>
                \A m \in Range(t.targets) :
                    \/ m \in Range(t.attempted)
                    \/ m \in t.known
                    \/ m \in Committed(t.token.address)

\* A delivered milestone is committed in the step of its delivery, whatever
\* happened to the milestones before it.
DeliveryCommits ==
    \A i \in 1..Len(tasks) : \A m \in 2..(MaxPrice + 1) :
        LET a == tasks[i].token.address
        IN  (Sending(i, a, m) /\ notified'[<<a, m>>] = notified[<<a, m>>] + 1) =>
                m \in Committed(a)'

\* C26: within one analysis call a failed notification for a milestone does
\* not stop the loop: the later milestones of the call are still attempted
\* and, on success, committed, so that a milestone can be committed, and
\* notified, before a lower one.
C26_LoopGoesOnAfterFailure ==
    /\ []FailureDoesNotStopLoop
    /\ [][DeliveryCommits]_vars

\* Milestone 3 was committed while 2 was not (its alert had failed), and 2
\* was notified and committed in a later analysis.
C26_Witness ==
    /\ AlertsSent("a1") = <<3, 2>>
    /\ notified[<<"a1", 2>>] = 1
    /\ notified[<<"a1", 3>>] = 1
    /\ \E i \in 1..Len(tasks) :
           /\ tasks[i].token.address = "a1"
           /\ tasks[i].known = {3}
           /\ tasks[i].attempted = <<2>>

\* C27: the cooldown entry of (address, score) is recorded when the gate
\* answers true, before the risk alert is dispatched and whatever becomes of
\* it: once the gate has been asked for a score above the floor the key has
\* an entry, an alert being dispatched has one, and of the calls for one key
\* inside the window one at most was allowed.
C27_CooldownRecordedBeforeDispatch ==
    \A i \in 1..Len(tasks) :
        LET t == tasks[i]
        IN  /\ t.pc = "sending_risk" => AlertKey(t) \in DOMAIN sent_alerts.map
            /\ (t.gate # "none" /\ t.risk_score > RiskAlertFloor) =>
                   /\ AlertKey(t) \in DOMAIN sent_alerts.map
                   /\ \A j \in 1..Len(tasks) :
                          (j # i /\ tasks[j].gate = "true"
                                 /\ AlertKey(tasks[j]) = AlertKey(t)) =>
                              t.gate = "false"

\* What cleanup_old_alerts does to the entries sa at time t: it raises
\* nothing, drops the entries as old as the cooldown window, keeps the
\* younger ones as they are, and leaves the answer of the gate, for every
\* address and score, what it would be without it.
CleanupKeepsYoung(sa, t) ==
    LET c == cleanup_old_alerts(sa, t)
    IN  /\ c.raised = "none"
        /\ DOMAIN c.sent_alerts.map =
               {k \in DOMAIN sa.map : t - sa.map[k] < alert_cooldown}
        /\ \A k \in DOMAIN c.sent_alerts.map : c.sent_alerts.map[k] = sa.map[k]
        /\ \A a \in Addrs : \A score \in {0, RiskAlertFloor, RiskAlertFloor + 1, 10} :
               LET with == should_send_risk_alert(c.sent_alerts, a, score, t)
                   without == should_send_risk_alert(sa, a, score, t)
               IN  with.ret = without.ret /\ with.raised = without.raised

\* C28: cleanup_old_alerts, run at the start of each cycle, removes only the
\* entries whose age is the cooldown window or more and keeps the younger
\* ones unchanged, so that should_send_risk_alert answers the same with it
\* and without it.
C28_CleanupKeepsGateAnswers ==
    [][MonitorNewTokens => CleanupKeepsYoung(sent_alerts, now)]_vars

\* C29 (under SpecLedger): an upsert or a milestone commit for an address
\* leaves the persisted record of every other address as it was, the whole
\* document being rewritten.
C29_OtherRecordsUnchanged ==
    [][\A b \in DOMAIN Tokens :
           b # call'.address => (b \in DOMAIN Tokens' /\ Tokens'[b] = Tokens[b])]_vars

\* Both addresses recorded; the last call committed a milestone of a1 while
\* a2 held two samples and a milestone of its own.
C29_Witness ==
    /\ call.op = "mark_price_alert_sent"
    /\ call.address = "a1"
    /\ AlertsSent("a1") = <<2>>
    /\ "a2" \in DOMAIN Tokens
    /\ Len(Tokens["a2"].price_history) = 2
    /\ AlertsSent("a2") = <<2>>

====
